---- MODULE Spec2Model ----
(***************************************************************************)
(* The manufacturing expert system of main_4.py: the KnowledgeBase (rules, *)
(* facts, history), the KnowledgeGraph derived from the rules, and the     *)
(* handlers of ManufacturingExpertSystem that drive them.                  *)
(*                                                                         *)
(* Text is a TLA+ string; str.strip, str.lower, str.replace and str.title  *)
(* are computed character by character.  A confidence is kept in           *)
(* hundredths (0.7 is 70), which preserves the order the sort compares.    *)
(* Widgets that no operation reads back (indicators_list, history_list,    *)
(* message boxes) are left out; indicator_input is the input of            *)
(* add_indicator.                                                          *)
(***************************************************************************)
EXTENDS Integers, Sequences, FiniteSets, TLC

VARIABLES rules, facts, history, graph, canvas, call, pc

vars == <<rules, facts, history, graph, canvas, call, pc>>

(***************************************************************************)
(* Bounds of the model.                                                    *)
(***************************************************************************)
\* history entries a run may append
MaxHistory == 4
\* rules a client may register after the built-in catalog
MaxExtraRules == 1

(***************************************************************************)
(* Python string methods.                                                  *)
(***************************************************************************)
UpperLetters == "ABCDEFGHIJKLMNOPQRSTUVWXYZ"

LowerLetters == "abcdefghijklmnopqrstuvwxyz"

Whitespace == {" ", "\t", "\n"}

CharAt(s, i) == SubSeq(s, i, i)

\* position of character c in s, 0 when absent
IndexIn(c, s) ==
    IF \E i \in 1..Len(s) : CharAt(s, i) = c
    THEN CHOOSE i \in 1..Len(s) : CharAt(s, i) = c
    ELSE 0

\* the case mappings of the ASCII letters, as tables
LowerOf ==
    [c \in {CharAt(UpperLetters, i) : i \in 1..Len(UpperLetters)} |->
        CharAt(LowerLetters, IndexIn(c, UpperLetters))]

UpperOf ==
    [c \in {CharAt(LowerLetters, i) : i \in 1..Len(LowerLetters)} |->
        CharAt(UpperLetters, IndexIn(c, LowerLetters))]

lower_char(c) == IF c \in DOMAIN LowerOf THEN LowerOf[c] ELSE c

upper_char(c) == IF c \in DOMAIN UpperOf THEN UpperOf[c] ELSE c

is_cased(c) == c \in DOMAIN LowerOf \/ c \in DOMAIN UpperOf

RECURSIVE lower(_)
lower(s) == IF s = "" THEN "" ELSE lower_char(Head(s)) \o lower(Tail(s))

RECURSIVE lstrip(_)
lstrip(s) ==
    IF s # "" /\ Head(s) \in Whitespace THEN lstrip(Tail(s)) ELSE s

RECURSIVE rstrip(_)
rstrip(s) ==
    IF s # "" /\ CharAt(s, Len(s)) \in Whitespace
    THEN rstrip(SubSeq(s, 1, Len(s) - 1))
    ELSE s

strip(s) == rstrip(lstrip(s))

RECURSIVE replace(_, _, _)
replace(s, old, new) ==
    IF s = "" THEN ""
    ELSE (IF Head(s) = old THEN new ELSE Head(s)) \o replace(Tail(s), old, new)

\* str.title: a cased character is upper-cased after an uncased one (or at
\* the start) and lower-cased after a cased one
RECURSIVE title_from(_, _)
title_from(s, prev_cased) ==
    IF s = "" THEN ""
    ELSE LET c == Head(s)
         IN  (IF prev_cased THEN lower_char(c) ELSE upper_char(c))
                 \o title_from(Tail(s), is_cased(c))

title(s) == title_from(s, FALSE)

(***************************************************************************)
(* KnowledgeBase                                                           *)
(***************************************************************************)
Rule(rule_id, conditions, conclusion, confidence) ==
    [rule_id |-> rule_id, conditions |-> conditions,
     conclusion |-> conclusion, confidence |-> confidence]

\* self.rules[len(self.rules)] = {...}: the dict, in insertion order
add_rule(rs, conditions, conclusion, confidence) ==
    Append(rs, Rule(Len(rs), conditions, conclusion, confidence))

\* self.facts.add(fact)
facts_add(fs, fact) == fs \cup {fact}

\* mutant of log_added: insert(0, ...) in place of append(...)
log_added_first(h, fact) == <<"Added indicator: " \o fact>> \o h

\* self.history.append(f"Added indicator: {fact}")
log_added(h, fact) == Append(h, "Added indicator: " \o fact)

\* mutant of all_conditions_present: any() in place of all()
any_condition_present(rule, fs) ==
    \E k \in 1..Len(rule.conditions) : rule.conditions[k] \in fs

\* all(cond in self.facts for cond in rule['conditions'])
all_conditions_present(rule, fs) ==
    \A k \in 1..Len(rule.conditions) : rule.conditions[k] \in fs

Conclusion(rule) ==
    [conclusion |-> rule.conclusion, confidence |-> rule.confidence,
     rule_id |-> rule.rule_id]

RECURSIVE evaluate_loop(_, _, _)
evaluate_loop(rs, fs, i) ==
    IF i > Len(rs) THEN <<>>
    ELSE (IF all_conditions_present(rs[i], fs)
          THEN <<Conclusion(rs[i])>> ELSE <<>>)
             \o evaluate_loop(rs, fs, i + 1)

evaluate_rules(rs, fs) == evaluate_loop(rs, fs, 1)

(***************************************************************************)
(* KnowledgeGraph: a networkx DiGraph as its node set and edge set         *)
(***************************************************************************)
EmptyGraph == [nodes |-> {}, edges |-> {}]

\* DiGraph.add_edge(u, v) also adds both end points
add_edge(g, u, v) ==
    [nodes |-> g.nodes \cup {u, v}, edges |-> g.edges \cup {<<u, v>>}]

RECURSIVE add_rule_to_graph(_, _, _)
add_rule_to_graph(g, conditions, conclusion) ==
    IF conditions = <<>> THEN g
    ELSE add_rule_to_graph(add_edge(g, Head(conditions), conclusion),
                           Tail(conditions), conclusion)

(***************************************************************************)
(* ManufacturingExpertSystem                                               *)
(***************************************************************************)
\* the add_rule calls of setup_manufacturing_knowledge, in order
Catalog ==
    << <<(<<"dimensional_variation", "tool_wear">>), "possible_tooling_problem", 70>>,
       <<(<<"dimensional_variation", "tool_wear", "vibration">>), "severe_tooling_issue", 90>>,
       <<(<<"surface_defects", "irregular_finish">>), "quality_control_issue", 80>>,
       <<(<<"unusual_noise", "vibration">>), "mechanical_problem", 75>>,
       <<(<<"unusual_noise", "vibration", "overheating">>), "serious_mechanical_issue", 90>>,
       <<(<<"power_fluctuation", "system_trips">>), "electrical_problem", 85>>,
       <<(<<"temperature_variation", "pressure_fluctuation">>), "process_control_issue", 70>>,
       <<(<<"temperature_variation", "pressure_fluctuation", "flow_rate_unstable">>),
         "severe_process_control", 90>>,
       <<(<<"feed_rate_unstable", "material_buildup">>), "material_handling_problem", 80>>,
       <<(<<"feed_rate_unstable", "material_buildup", "jamming">>),
         "severe_material_handling", 95>>,
       <<(<<"cycle_time_increase", "output_decrease">>), "efficiency_problem", 75>>,
       <<(<<"cycle_time_increase", "output_decrease", "high_reject_rate">>),
         "serious_efficiency_issue", 90>> >>

RECURSIVE register_catalog(_, _)
register_catalog(rs, i) ==
    IF i > Len(Catalog) THEN rs
    ELSE register_catalog(
             add_rule(rs, Catalog[i][1], Catalog[i][2], Catalog[i][3]), i + 1)

\* for rule in self.kb.rules.values(): self.kg.add_rule_to_graph(...)
RECURSIVE graph_of_rules(_, _, _)
graph_of_rules(g, rs, i) ==
    IF i > Len(rs) THEN g
    ELSE graph_of_rules(
             add_rule_to_graph(g, rs[i].conditions, rs[i].conclusion), rs, i + 1)

\* mutant of sort_insert: a record goes before the records of its own
\* confidence, so ties come out in reverse registration order
sort_insert_before_ties(sorted, x) ==
    LET k == Cardinality({j \in 1..Len(sorted) :
                             sorted[j].confidence > x.confidence})
    IN  SubSeq(sorted, 1, k) \o <<x>> \o SubSeq(sorted, k + 1, Len(sorted))

\* conclusions.sort(key=lambda x: x['confidence'], reverse=True): a stable
\* sort, so records of equal confidence keep their order
sort_insert(sorted, x) ==
    LET k == Cardinality({j \in 1..Len(sorted) :
                             sorted[j].confidence >= x.confidence})
    IN  SubSeq(sorted, 1, k) \o <<x>> \o SubSeq(sorted, k + 1, Len(sorted))

RECURSIVE sort_from(_, _, _)
sort_from(sorted, cs, i) ==
    IF i > Len(cs) THEN sorted
    ELSE sort_from(sort_insert(sorted, cs[i]), cs, i + 1)

sort_by_confidence(cs) == sort_from(<<>>, cs, 1)

\* the text analyze shows and logs
RECURSIVE analysis_lines(_, _)
analysis_lines(cs, i) ==
    IF i > Len(cs) THEN ""
    ELSE "- " \o title(replace(cs[i].conclusion, "_", " ")) \o "\n"
         \o "  Confidence: " \o ToString(cs[i].confidence) \o ".0%\n"
         \o analysis_lines(cs, i + 1)

analysis_text(cs) == "Analysis Results:\n" \o analysis_lines(cs, 1)

(***************************************************************************)
(* Inputs                                                                  *)
(***************************************************************************)
\* the indicator buttons exercised (three of the eighteen of init_ui)
QuickIndicators == {"dimensional_variation", "tool_wear", "vibration"}

\* texts typed into indicator_input
TypedTexts == {" \n", " Tool_Wear "}

\* labels a client hands to KnowledgeBase.add_fact itself
FactArguments == {" ", "vibration"}

\* rules a client registers with KnowledgeBase.add_rule after start-up
RuleArguments ==
    { <<(<<>>), "always_reported", 50>>,
      <<(<<"tool_wear">>), "worn_tool", 70>>,
      <<(<<"vibration", "tool_wear">>), "possible_tooling_problem", 150>> }

Call(name) ==
    [name |-> name, fact |-> "", conditions |-> <<>>, conclusion |-> "",
     confidence |-> 0, result |-> <<>>]

(***************************************************************************)
(* The state: rules, facts and history are the attributes of the           *)
(* KnowledgeBase, graph is KnowledgeGraph.graph, canvas is what plot last  *)
(* drew, call is the last call made with its arguments and return value,   *)
(* pc is the position in ManufacturingExpertSystem.__init__.               *)
(***************************************************************************)
TypeOK ==
    /\ \A i \in 1..Len(rules) :
          /\ rules[i].rule_id = i - 1
          /\ DOMAIN rules[i] = {"rule_id", "conditions", "conclusion", "confidence"}
    /\ IsFiniteSet(facts)
    /\ Len(history) <= MaxHistory
    /\ DOMAIN graph = {"nodes", "edges"}
    /\ \A e \in graph.edges : e[1] \in graph.nodes /\ e[2] \in graph.nodes
    /\ canvas.drawn \in BOOLEAN
    /\ pc \in {"kb", "knowledge", "ui"}

(***************************************************************************)
(* Operations                                                              *)
(***************************************************************************)
\* ManufacturingExpertSystem.__init__ builds the KnowledgeBase and the
\* KnowledgeGraph (Init), then runs setup_manufacturing_knowledge and
\* init_ui.  From then on the handlers run one at a time, and the kb_
\* operations are the methods of the KnowledgeBase called on self.kb by a
\* client, with arguments the methods do not restrict.
Init ==
    /\ rules = <<>>
    /\ facts = {}
    /\ history = <<>>
    /\ graph = EmptyGraph
    /\ canvas = [drawn |-> FALSE, nodes |-> {}, edges |-> {}]
    /\ call = Call("__init__")
    /\ pc = "kb"

setup_manufacturing_knowledge ==
    /\ pc = "kb"
    /\ rules' = register_catalog(rules, 1)
    /\ graph' = graph_of_rules(graph, rules', 1)
    /\ call' = Call("setup_manufacturing_knowledge")
    /\ pc' = "knowledge"
    /\ UNCHANGED <<facts, history, canvas>>

\* init_ui draws the graph once: self.kg.plot(self.canvas)
init_ui ==
    /\ pc = "knowledge"
    /\ canvas' = [drawn |-> TRUE, nodes |-> graph.nodes, edges |-> graph.edges]
    /\ call' = Call("init_ui")
    /\ pc' = "ui"
    /\ UNCHANGED <<rules, facts, history, graph>>

kb_add_rule(conditions, conclusion, confidence) ==
    /\ pc = "ui"
    /\ Len(rules) < Len(Catalog) + MaxExtraRules
    /\ rules' = add_rule(rules, conditions, conclusion, confidence)
    /\ call' = [Call("add_rule") EXCEPT !.conditions = conditions,
                   !.conclusion = conclusion, !.confidence = confidence]
    /\ UNCHANGED <<facts, history, graph, canvas, pc>>

kb_add_fact(fact) ==
    /\ pc = "ui"
    /\ Len(history) < MaxHistory
    /\ facts' = facts_add(facts, fact)
    /\ history' = log_added(history, fact)
    /\ call' = [Call("add_fact") EXCEPT !.fact = fact]
    /\ UNCHANGED <<rules, graph, canvas, pc>>

\* mutant of kb_evaluate_rules: the engine logs what it evaluated
kb_evaluate_rules_logging ==
    /\ pc = "ui"
    /\ Len(history) < MaxHistory
    /\ history' = Append(history, "Evaluated rules")
    /\ call' = [Call("evaluate_rules") EXCEPT
                   !.result = evaluate_rules(rules, facts)]
    /\ UNCHANGED <<rules, facts, graph, canvas, pc>>

kb_evaluate_rules ==
    /\ pc = "ui"
    /\ call' = [Call("evaluate_rules") EXCEPT
                   !.result = evaluate_rules(rules, facts)]
    /\ UNCHANGED <<rules, facts, history, graph, canvas, pc>>

\* mutant of quick_add_indicator: an indicator already present is skipped
quick_add_indicator_once(indicator) ==
    /\ pc = "ui"
    /\ Len(history) < MaxHistory
    /\ IF indicator \in facts
       THEN UNCHANGED <<facts, history>>
       ELSE /\ facts' = facts_add(facts, indicator)
            /\ history' = log_added(history, indicator)
    /\ call' = [Call("quick_add_indicator") EXCEPT !.fact = indicator]
    /\ UNCHANGED <<rules, graph, canvas, pc>>

quick_add_indicator(indicator) ==
    /\ pc = "ui"
    /\ Len(history) < MaxHistory
    /\ facts' = facts_add(facts, indicator)
    /\ history' = log_added(history, indicator)
    /\ call' = [Call("quick_add_indicator") EXCEPT !.fact = indicator]
    /\ UNCHANGED <<rules, graph, canvas, pc>>

add_indicator(text) ==
    /\ pc = "ui"
    /\ Len(history) < MaxHistory
    /\ LET indicator == lower(strip(text))
       IN  IF indicator # ""
           THEN /\ facts' = facts_add(facts, indicator)
                /\ history' = log_added(history, indicator)
           ELSE UNCHANGED <<facts, history>>
    /\ call' = [Call("add_indicator") EXCEPT !.fact = text]
    /\ UNCHANGED <<rules, graph, canvas, pc>>

\* mutant of clear_indicators: the log is cleared with the facts
clear_indicators_and_log ==
    /\ pc = "ui"
    /\ Len(history) < MaxHistory
    /\ facts' = {}
    /\ history' = <<"Cleared all indicators">>
    /\ call' = Call("clear_indicators")
    /\ UNCHANGED <<rules, graph, canvas, pc>>

clear_indicators ==
    /\ pc = "ui"
    /\ Len(history) < MaxHistory
    /\ facts' = {}
    /\ history' = Append(history, "Cleared all indicators")
    /\ call' = Call("clear_indicators")
    /\ UNCHANGED <<rules, graph, canvas, pc>>

analyze ==
    /\ pc = "ui"
    /\ Len(history) < MaxHistory
    /\ LET conclusions == evaluate_rules(rules, facts)
           sorted == sort_by_confidence(conclusions)
       IN  IF conclusions # <<>>
           THEN /\ history' = Append(history, analysis_text(sorted))
                /\ call' = [Call("analyze") EXCEPT !.result = sorted]
           ELSE /\ UNCHANGED history
                /\ call' = Call("analyze")
    /\ UNCHANGED <<rules, facts, graph, canvas, pc>>

Next ==
    \/ setup_manufacturing_knowledge
    \/ init_ui
    \/ \E r \in RuleArguments : kb_add_rule(r[1], r[2], r[3])
    \/ \E f \in FactArguments : kb_add_fact(f)
    \/ kb_evaluate_rules
    \/ \E s \in QuickIndicators : quick_add_indicator(s)
    \/ \E t \in TypedTexts : add_indicator(t)
    \/ clear_indicators
    \/ analyze

Spec == Init /\ [][Next]_vars

(***************************************************************************)
(* Properties                                                              *)
(***************************************************************************)
\* every label an operation of the model can put into the fact set
Labels ==
    QuickIndicators \cup FactArguments \cup {lower(strip(t)) : t \in TypedTexts}

ConditionSet(rule) == {rule.conditions[k] : k \in 1..Len(rule.conditions)}

Fired(rule_id, cs) == \E k \in 1..Len(cs) : cs[k].rule_id = rule_id

\* the fact a call adds ("" when it adds none)
AddedLabel(c) ==
    CASE c.name \in {"add_fact", "quick_add_indicator"} -> c.fact
      [] c.name = "add_indicator" -> lower(strip(c.fact))
      [] OTHER -> ""

AddsFact(c) ==
    /\ c.name \in {"add_fact", "quick_add_indicator", "add_indicator"}
    /\ lower(strip(c.fact)) # ""

IsPrefix(h1, h2) == Len(h1) <= Len(h2) /\ SubSeq(h2, 1, Len(h1)) = h1

\* C1: evaluate_rules returns a conclusion record for a rule if and only if
\* every condition of the rule is among the facts; each rule is tested on
\* its own (one record per firing rule, carrying that rule's conclusion and
\* confidence), and a fact that is not one of the rule's conditions never
\* changes whether the rule fires.
C1_RuleFiresIffConditionsPresent ==
    /\ call.name = "evaluate_rules" =>
          /\ \A i \in 1..Len(rules) :
                Fired(rules[i].rule_id, call.result)
                    <=> ConditionSet(rules[i]) \subseteq facts
          /\ \A k \in 1..Len(call.result) :
                \E i \in 1..Len(rules) : call.result[k] = Conclusion(rules[i])
          /\ \A j, k \in 1..Len(call.result) :
                j # k => call.result[j].rule_id # call.result[k].rule_id
    /\ LET now == evaluate_rules(rules, facts)
       IN  \A f \in Labels :
              LET more == evaluate_rules(rules, facts \cup {f})
              IN  \A i \in 1..Len(rules) :
                     f \notin ConditionSet(rules[i]) =>
                        (Fired(rules[i].rule_id, more)
                            <=> Fired(rules[i].rule_id, now))

\* evaluate_rules has returned both tooling rules (the conditions of the
\* first are a strict subset of those of the second) while a fact that is
\* no condition of the first is present
C1_Witness ==
    /\ call.name = "evaluate_rules"
    /\ Fired(0, call.result)
    /\ Fired(1, call.result)
    /\ "vibration" \in facts
    /\ " " \in facts

IsRanked(cs) ==
    \A j, k \in 1..Len(cs) :
       j < k => \/ cs[j].confidence > cs[k].confidence
                \/ /\ cs[j].confidence = cs[k].confidence
                   /\ cs[j].rule_id < cs[k].rule_id

InRegistrationOrder(cs) ==
    \A j, k \in 1..Len(cs) : j < k => cs[j].rule_id < cs[k].rule_id

SameRecords(cs, ds) ==
    /\ Len(cs) = Len(ds)
    /\ {cs[k] : k \in 1..Len(cs)} = {ds[k] : k \in 1..Len(ds)}

InvalidRule(c) ==
    c.conditions = <<>> \/ c.confidence <= 0 \/ c.confidence > 100

\* C3: registering a rule whose conditions are empty or whose confidence is
\* outside (0,1] fails and leaves the rule mapping as it was.
C3_InvalidRegistrationRejected ==
    [][(call'.name = "add_rule" /\ InvalidRule(call')) => rules' = rules]_vars

\* C4: adding a label that is empty after strip and lower changes neither
\* the fact set nor the history, whichever operation adds it.
C4_BlankLabelIgnored ==
    [][(/\ call'.name \in {"add_fact", "quick_add_indicator", "add_indicator"}
        /\ lower(strip(call'.fact)) = "")
          => (facts' = facts /\ history' = history)]_vars

\* C5: with no facts, evaluate_rules returns the empty sequence, whatever
\* rules are registered.
C5_NoFactsNoConclusions ==
    facts = {} => evaluate_rules(rules, facts) = <<>>

\* C6: an add of a non-blank label appends exactly one history entry, and
\* when the call before it added the same label the fact set stays as it
\* was: two adds in a row give the fact set of one add and two entries.
C6_RepeatedAddIdempotent ==
    [][AddsFact(call') =>
          /\ history' = Append(history, "Added indicator: " \o AddedLabel(call'))
          /\ AddedLabel(call') \in facts'
          /\ (AddsFact(call) /\ AddedLabel(call) = AddedLabel(call'))
                => facts' = facts]_vars

\* the same label was added by the last two calls
C6_Witness ==
    /\ call.name \in {"add_fact", "quick_add_indicator"}
    /\ Len(history) >= 3
    /\ history[Len(history)] = "Added indicator: " \o call.fact
    /\ history[Len(history) - 1] = history[Len(history)]
    /\ Cardinality(facts) = 2

\* C7: clear_indicators empties the fact set, appends exactly one history
\* entry, and changes neither the rules nor the entries logged before.
C7_ClearFrame ==
    [][call'.name = "clear_indicators" =>
          /\ facts' = {}
          /\ Len(history') = Len(history) + 1
          /\ SubSeq(history', 1, Len(history)) = history
          /\ rules' = rules]_vars

\* clear_indicators has run on a state that held facts and history
C7_Witness ==
    /\ call.name = "clear_indicators"
    /\ facts = {}
    /\ Len(history) >= 3
    /\ history[Len(history) - 1] = "Added indicator: vibration"
    /\ Len(rules) > Len(Catalog)

\* C8: a call of evaluate_rules changes neither the rules nor the facts nor
\* the history; in analyze the rules and facts stay as they are and the
\* history changes only by the one formatted result the handler appends.
C8_EvaluateIsPure ==
    [][/\ call'.name = "evaluate_rules" =>
             (rules' = rules /\ facts' = facts /\ history' = history)
       /\ call'.name = "analyze" =>
             /\ rules' = rules /\ facts' = facts
             /\ \/ history' = history
                \/ history' = Append(history, analysis_text(call'.result))]_vars

\* evaluate_rules has returned conclusions in a state with facts and history
C8_Witness ==
    /\ call.name = "evaluate_rules"
    /\ Len(call.result) >= 2
    /\ Len(history) >= 2
    /\ facts # {}

\* C9: every step leaves the previous history a prefix of the new one.
C9_HistoryAppendOnly ==
    [][IsPrefix(history, history')]_vars

\* a history holding an added fact, a clear and an analysis result
C9_Witness ==
    /\ call.name = "analyze"
    /\ call.result # <<>>
    /\ history[Len(history)] = analysis_text(call.result)
    /\ \E i, j \in 1..Len(history) :
          /\ i < j
          /\ history[i] = "Added indicator: tool_wear"
          /\ history[j] = "Cleared all indicators"

RuleEdges(rs) ==
    UNION {{<<c, rs[i].conclusion>> : c \in ConditionSet(rs[i])} :
              i \in 1..Len(rs)}

RuleNodes(rs) ==
    UNION {ConditionSet(rs[i]) \cup {rs[i].conclusion} : i \in 1..Len(rs)}

\* C10: once the graph is drawn, its edges are exactly the (condition,
\* conclusion) pairs of the registered rules and its nodes are exactly their
\* condition and conclusion labels.
C10_DisplayedGraphMirrorsRules ==
    canvas.drawn =>
       /\ canvas.edges = RuleEdges(rules)
       /\ canvas.nodes = RuleNodes(rules)

====
